---- MODULE Spec2Model ----
(***************************************************************************)
(* Model of the Broadcaster of webrtc-hub-example (broadcast.go) together  *)
(* with the handlers that drive it (whip.go, main.go).                     *)
(*                                                                         *)
(* The registry is the three maps peerSender, senders and receivers under  *)
(* one mutex.  A method that runs entirely under the mutex is one action,  *)
(* enabled when the mutex is free.  The rebalance is split into its start  *)
(* (prune, snapshot, policy), one step per reconciled receiver and its     *)
(* end, because sessions are closed by other tasks, without the mutex,     *)
(* while it runs.  AddPeerSender is split into lock and store, and         *)
(* GetPeerSender into the begin and the end of its map read, because       *)
(* GetPeerSender does not take the mutex.                                  *)
(*                                                                         *)
(* uuid.New() is a counter.  A track created by AddSender is the index of  *)
(* its (StreamID, ID) pair in `created`; its registry key is the string    *)
(* concatenation of the two, as in the code.  A SignalSocket is modelled   *)
(* by the offers written to it.                                            *)
(*                                                                         *)
(* Spec is the registry of tracks and receivers with its forwarders,       *)
(* session callbacks and rebalances.  SpecWhip is the publisher handlers   *)
(* (POST /whip, DELETE /whip/{id}) running against that registry; the two  *)
(* meet only in the mutex and in DeletePeerSender.  SpecForwarder is the   *)
(* forwarders with every outcome of their Write, LiveSpec the tasks that   *)
(* take the mutex under fair scheduling, SpecDelete the exported           *)
(* DeletePeerSender called with any id, and SpecDist the policies alone.   *)
(***************************************************************************)
EXTENDS Integers, Sequences, FiniteSets, TLC

\* ------------------------------------------------------------------ bounds
MaxPublishers == 2
MaxReceivers == 2
MaxTracks == 2
\* rebalance goroutines spawned and not yet started
MaxPending == 2

\* (StreamID, ID) pairs a publisher may announce
TrackNames == { <<"a", "bc">>, <<"ab", "c">>, <<"a", "c">> }

VARIABLES
    distributionFunction, \* "All" or "RR": the policy given to NewBroadcaster
    peerSender,           \* keys of Broadcaster.peerSender
    senders,              \* Broadcaster.senders: key -> track
    receivers,            \* keys of Broadcaster.receivers
    lock,                 \* Broadcaster.lock: "free" or the method holding it
    nextId,               \* next value of uuid.New()
    created,              \* created[t]: (StreamID, ID) of track t
    forwarder,            \* forwarder[t]: the goroutine of AddSender: running,
                          \* sinkClosed (running, last Write got io.ErrClosedPipe),
                          \* removed, failed
    connState,            \* connState[u]: state of receiver u's PeerConnection
    connSenders,          \* connSenders[u]: tracks attached to u's connection
    callbacks,            \* callbacks[u]: OnConnectionStateChange calls not yet run
    sent,                 \* sent[u]: offers written to u by the running rebalance
    failure,              \* failure[u]: the call that failed for u in the running rebalance
    pending,              \* spawned rebalanceReceivers goroutines not yet started
    match,                \* the policy's result inside a running rebalance
    todo,                 \* receivers of match not yet reconciled
    whipPc,               \* whipDeleteHandler: idle, reading, raced, found
    whipId,               \* the peerID of the running whipDeleteHandler
    net,                  \* history: entries added and not since removed
    removed,              \* history: ids for which RemoveReceiver has returned
    stale,                \* history: a membership change since the last snapshot
    call                  \* SpecDist: one call of the policy, inputs and result

vars == << distributionFunction, peerSender, senders, receivers, lock, nextId,
           created, forwarder, connState, connSenders, callbacks, sent, failure, pending,
           match, todo, whipPc, whipId, net, removed, stale, call >>

cfgVars == << distributionFunction, call >>
pubVars == << peerSender, whipPc, whipId >>
trackVars == << senders, created, forwarder >>
connVars == << connState, connSenders, callbacks >>
rebVars == << match, todo, sent, failure >>

\* ----------------------------------------------------------------- helpers
Range(s) == { s[i] : i \in 1..Len(s) }

\* all orderings of a finite set, as sequences without repetition
Orderings(S) ==
    { s \in [1..Cardinality(S) -> S] : \A i, j \in 1..Cardinality(S) : s[i] = s[j] => i = j }

\* trackLocal.StreamID() + trackLocal.ID()
Key(t) == created[t][1] \o created[t][2]

Keys(ts) == { Key(t) : t \in ts }

\* ---------------------------------------------------------------- policies
\* faulty variant: only the first sender is given to each receiver
AllDistFirstOnly(sendersList, receiversList) ==
    [ r \in Range(receiversList) |->
        IF Len(sendersList) = 0 THEN {} ELSE {sendersList[1]} ]

AllDist(sendersList, receiversList) ==
    [ r \in Range(receiversList) |-> Range(sendersList) ]

RECURSIVE RRAssignShifted(_, _, _, _)
\* faulty variant: the receiver index is off by one
RRAssignShifted(outputMap, sendersList, receiversList, i) ==
    IF i > Len(sendersList) THEN outputMap
    ELSE LET r == receiversList[(i % Len(receiversList)) + 1]
         IN RRAssignShifted([outputMap EXCEPT ![r] = @ \cup {sendersList[i]}],
                            sendersList, receiversList, i + 1)

RECURSIVE RRAssign(_, _, _, _)
\* the loop `for i, sender := range senders` of RRDist; i is 1-based here
RRAssign(outputMap, sendersList, receiversList, i) ==
    IF i > Len(sendersList) THEN outputMap
    ELSE LET r == receiversList[((i - 1) % Len(receiversList)) + 1]
         IN RRAssign([outputMap EXCEPT ![r] = @ \cup {sendersList[i]}],
                     sendersList, receiversList, i + 1)

\* faulty variant: every sender goes to receivers[0]
RRDistFirstReceiver(sendersList, receiversList) ==
    IF Len(receiversList) = 0 THEN << >>
    ELSE [ r \in Range(receiversList) |->
             IF r = receiversList[1] THEN Range(sendersList) ELSE {} ]

RRDist(sendersList, receiversList) ==
    IF Len(receiversList) = 0 THEN << >>
    ELSE RRAssign([ r \in Range(receiversList) |-> {} ], sendersList, receiversList, 1)

Dist(f, sendersList, receiversList) ==
    IF f = "All" THEN AllDist(sendersList, receiversList)
    ELSE RRDist(sendersList, receiversList)

\* -------------------------------------------------------------------- init
Init ==
    /\ distributionFunction \in {"All", "RR"}
    /\ peerSender = {}
    /\ senders = << >>
    /\ receivers = {}
    /\ lock = "free"
    /\ nextId = 1
    /\ created = << >>
    /\ forwarder = << >>
    /\ connState = << >>
    /\ connSenders = << >>
    /\ callbacks = << >>
    /\ sent = << >>
    /\ failure = << >>
    /\ pending = 0
    /\ match = << >>
    /\ todo = {}
    /\ whipPc = "idle"
    /\ whipId = 0
    /\ net = [ peerSender |-> {}, senders |-> {}, receivers |-> {} ]
    /\ removed = {}
    /\ stale = FALSE
    /\ call = [ senders |-> << >>, receivers |-> << >>, done |-> FALSE, result |-> << >> ]

\* -------------------------------------------------------------- publishers
\* ids uuid.New() has returned to AddPeerSender
PublisherIds == (1..(nextId - 1)) \ DOMAIN connState

\* AddPeerSender: s.lock.Lock(); id := uuid.New()
AddPeerSenderLock ==
    /\ lock = "free"
    /\ Cardinality(PublisherIds) < MaxPublishers
    /\ lock' = "AddPeerSender"
    /\ UNCHANGED << cfgVars, pubVars, trackVars, receivers, nextId,
                    connVars, pending, rebVars, net, removed, stale >>

\* AddPeerSender: s.peerSender[id] = peer; unlock.  A GetPeerSender whose map
\* read is in progress overlaps this write.
AddPeerSenderStore ==
    /\ lock = "AddPeerSender"
    /\ peerSender' = peerSender \cup {nextId}
    /\ nextId' = nextId + 1
    /\ whipPc' = IF whipPc = "reading" THEN "raced" ELSE whipPc
    /\ net' = [net EXCEPT !.peerSender = @ \cup {nextId}]
    /\ lock' = "free"
    /\ UNCHANGED << cfgVars, trackVars, receivers, connVars,
                    pending, rebVars, whipId, removed, stale >>

\* whipDeleteHandler up to b.GetPeerSender(peerID): the map read starts, and
\* no lock is taken.  Id 0 is a well-formed uuid that was never issued.
WhipGetBegin(id) ==
    /\ whipPc = "idle"
    /\ whipPc' = "reading"
    /\ whipId' = id
    /\ UNCHANGED << cfgVars, peerSender, trackVars, receivers, lock,
                    nextId, connVars, pending, rebVars, net, removed, stale >>

\* v, ok := s.peerSender[id].  A read that overlapped a write is a data race:
\* it may miss the entry.  (The runtime may instead abort the process; a
\* process that has stopped takes no further step.)
GetPeerSender(id, raced) ==
    IF raced THEN {id \in peerSender, FALSE} ELSE {id \in peerSender}

WhipGetEnd ==
    /\ whipPc \in {"reading", "raced"}
    /\ \E ok \in GetPeerSender(whipId, whipPc = "raced") :
          whipPc' = IF ok THEN "found" ELSE "idle"
    /\ UNCHANGED << cfgVars, peerSender, trackVars, receivers, lock,
                    nextId, connVars, pending, rebVars, whipId, net, removed,
                    stale >>

\* peer.PeerConn.Close() != nil: 500, the publisher is not deleted
WhipCloseError ==
    /\ whipPc = "found"
    /\ whipPc' = "idle"
    /\ UNCHANGED << cfgVars, peerSender, trackVars, receivers, lock,
                    nextId, connVars, pending, rebVars, whipId, net, removed,
                    stale >>

\* DeletePeerSender: delete(s.receivers, id) under the lock
DeletePeerSender(id) ==
    /\ receivers' = receivers \ {id}
    /\ UNCHANGED peerSender
    /\ net' = [net EXCEPT !.peerSender = @ \ {id}]
    /\ stale' = (stale \/ id \in receivers)

\* whipDeleteHandler after a successful Close: b.DeletePeerSender(peerID); 200
WhipDelete ==
    /\ whipPc = "found"
    /\ lock = "free"
    /\ DeletePeerSender(whipId)
    /\ whipPc' = "idle"
    /\ UNCHANGED << cfgVars, trackVars, lock, nextId, connVars,
                    pending, rebVars, whipId, removed >>

\* DeletePeerSender is exported: a caller other than whipDeleteHandler passes
\* an id uuid.New() has returned without looking it up with GetPeerSender
DeletePeerSenderCaller(id) ==
    /\ whipPc = "idle"
    /\ whipPc' = "found"
    /\ whipId' = id
    /\ UNCHANGED << cfgVars, peerSender, trackVars, receivers, lock,
                    nextId, connVars, pending, rebVars, net, removed, stale >>

\* ------------------------------------------------------------------ tracks
\* faulty variant: AddSender does not take the lock
AddSenderNoLock(nm) ==
    /\ Len(created) < MaxTracks
    /\ pending < MaxPending
    /\ LET t == Len(created) + 1
           k == nm[1] \o nm[2]
       IN /\ created' = Append(created, nm)
          /\ senders' = [ x \in DOMAIN senders \cup {k} |->
                            IF x = k THEN t ELSE senders[x] ]
          /\ forwarder' = Append(forwarder, "running")
          /\ net' = [net EXCEPT !.senders = @ \cup {k}]
    /\ pending' = pending + 1
    /\ stale' = TRUE
    /\ UNCHANGED << cfgVars, pubVars, receivers, lock, nextId,
                    connVars, rebVars, removed >>

\* AddSender: register the new track under StreamID+ID, spawn its forwarder
\* and a rebalance
AddSender(nm) ==
    /\ lock = "free"
    /\ Len(created) < MaxTracks
    /\ pending < MaxPending
    /\ LET t == Len(created) + 1
           k == nm[1] \o nm[2]
       IN /\ created' = Append(created, nm)
          /\ senders' = [ x \in DOMAIN senders \cup {k} |->
                            IF x = k THEN t ELSE senders[x] ]
          /\ forwarder' = Append(forwarder, "running")
          /\ net' = [net EXCEPT !.senders = @ \cup {k}]
    /\ pending' = pending + 1
    /\ stale' = TRUE
    /\ UNCHANGED << cfgVars, pubVars, receivers, lock, nextId,
                    connVars, rebVars, removed >>

\* faulty variant: the presence test is missing
RemoveSenderNoTest(t) ==
    /\ senders' = [ x \in DOMAIN senders \ {Key(t)} |-> senders[x] ]
    /\ pending' = pending + 1
    /\ net' = [net EXCEPT !.senders = @ \ {Key(t)}]
    /\ stale' = TRUE

\* faulty variant: the track is deleted but no rebalance is spawned
RemoveSenderNoRebalance(t) ==
    IF Key(t) \notin DOMAIN senders
    THEN UNCHANGED << senders, pending, net, stale >>
    ELSE /\ senders' = [ x \in DOMAIN senders \ {Key(t)} |-> senders[x] ]
         /\ net' = [net EXCEPT !.senders = @ \ {Key(t)}]
         /\ stale' = TRUE
         /\ UNCHANGED pending

\* RemoveSender(t): no-op when the key is absent, else delete and rebalance
RemoveSender(t) ==
    IF Key(t) \notin DOMAIN senders
    THEN UNCHANGED << senders, pending, net, stale >>
    ELSE /\ senders' = [ x \in DOMAIN senders \ {Key(t)} |-> senders[x] ]
         /\ pending' = pending + 1
         /\ net' = [net EXCEPT !.senders = @ \ {Key(t)}]
         /\ stale' = TRUE

\* the forwarder goroutine of track t is still in its loop
Running(t) == forwarder[t] \in { "running", "sinkClosed" }

\* forwarder goroutine: t.Read fails; s.RemoveSender(trackLocal); return
ForwarderReadError(t) ==
    /\ Running(t)
    /\ lock = "free"
    /\ pending < MaxPending
    /\ RemoveSender(t)
    /\ forwarder' = [forwarder EXCEPT ![t] = "removed"]
    /\ UNCHANGED << cfgVars, pubVars, receivers, lock, nextId,
                    created, connVars, rebVars, removed >>

\* faulty variant: a failed Write removes the track like a failed Read
ForwarderWriteErrorRemoves(t) ==
    /\ Running(t)
    /\ lock = "free"
    /\ pending < MaxPending
    /\ RemoveSender(t)
    /\ forwarder' = [forwarder EXCEPT ![t] = "failed"]
    /\ UNCHANGED << cfgVars, pubVars, receivers, lock, nextId,
                    created, connVars, rebVars, removed >>

\* forwarder goroutine: trackLocal.Write fails with an error other than
\* io.ErrClosedPipe; return
ForwarderWriteError(t) ==
    /\ Running(t)
    /\ forwarder' = [forwarder EXCEPT ![t] = "failed"]
    /\ UNCHANGED << cfgVars, pubVars, senders, created, receivers,
                    lock, nextId, connVars, pending, rebVars, net, removed,
                    stale >>

\* forwarder goroutine: trackLocal.Write fails with io.ErrClosedPipe; the
\* condition of the `if` is false and the loop goes on to the next Read
ForwarderWriteClosedPipe(t) ==
    /\ Running(t)
    /\ forwarder' = [forwarder EXCEPT ![t] = "sinkClosed"]
    /\ UNCHANGED << cfgVars, pubVars, senders, created, receivers,
                    lock, nextId, connVars, pending, rebVars, net, removed,
                    stale >>

\* forwarder goroutine: a Read and a Write that both succeed
ForwarderForward(t) ==
    /\ Running(t)
    /\ forwarder' = [forwarder EXCEPT ![t] = "running"]
    /\ UNCHANGED << cfgVars, pubVars, senders, created, receivers,
                    lock, nextId, connVars, pending, rebVars, net, removed,
                    stale >>

\* --------------------------------------------------------------- receivers
\* webSocketHandler up to OnConnectionStateChange: a new connection and
\* socket; AddReceiver stores them under a fresh id and spawns a rebalance
AddReceiver ==
    /\ lock = "free"
    /\ Cardinality(DOMAIN connState) < MaxReceivers
    /\ pending < MaxPending
    /\ receivers' = receivers \cup {nextId}
    /\ nextId' = nextId + 1
    /\ connState' = connState @@ (nextId :> "open")
    /\ connSenders' = connSenders @@ (nextId :> {})
    /\ callbacks' = callbacks @@ (nextId :> 0)
    /\ sent' = sent @@ (nextId :> 0)
    /\ failure' = failure @@ (nextId :> "none")
    /\ pending' = pending + 1
    /\ net' = [net EXCEPT !.receivers = @ \cup {nextId}]
    /\ stale' = TRUE
    /\ UNCHANGED << cfgVars, pubVars, trackVars, lock, match, todo,
                    removed >>

\* PeerConnection.Close(): a connection that was not closed becomes closed
\* and its OnConnectionStateChange callback is invoked once more
ConnAfterClose(u) == [connState EXCEPT ![u] = "closed"]
CallbacksAfterClose(cb, u) ==
    IF connState[u] = "closed" THEN cb ELSE [cb EXCEPT ![u] = @ + 1]

\* the session of u fails (ICE): OnConnectionStateChange(Failed) is invoked
ConnFail(u) ==
    /\ connState[u] = "open"
    /\ connState' = [connState EXCEPT ![u] = "failed"]
    /\ callbacks' = [callbacks EXCEPT ![u] = @ + 1]
    /\ UNCHANGED << cfgVars, pubVars, trackVars, receivers, lock,
                    nextId, connSenders, pending, rebVars, net, removed, stale >>

\* webSocketHandler: c.Read fails (or a message is malformed) and the handler
\* returns; its deferred peerConnection.Close() runs.  On a connection that
\* is already closed the return changes nothing.
WsReturn(u) ==
    /\ connState[u] # "closed"
    /\ connState' = ConnAfterClose(u)
    /\ callbacks' = CallbacksAfterClose(callbacks, u)
    /\ UNCHANGED << cfgVars, pubVars, trackVars, receivers, lock,
                    nextId, connSenders, pending, rebVars, net, removed, stale >>

\* faulty variant: the receiver is deleted but no rebalance is spawned
RemoveReceiverNoRebalance(id) ==
    IF id \notin receivers
    THEN UNCHANGED << receivers, pending, net, stale >>
    ELSE /\ receivers' = receivers \ {id}
         /\ net' = [net EXCEPT !.receivers = @ \ {id}]
         /\ stale' = TRUE
         /\ UNCHANGED pending

\* RemoveReceiver(id): no-op when absent, else close socket and connection,
\* delete and rebalance
RemoveReceiver(id) ==
    IF id \notin receivers
    THEN UNCHANGED << receivers, pending, net, stale >>
    ELSE /\ receivers' = receivers \ {id}
         /\ pending' = pending + 1
         /\ net' = [net EXCEPT !.receivers = @ \ {id}]
         /\ stale' = TRUE

\* faulty variant: the callback returns without closing the connection or deleting
\* the receiver
CallbackNoRemoval(u) ==
    /\ callbacks[u] > 0
    /\ lock = "free"
    /\ callbacks' = [callbacks EXCEPT ![u] = @ - 1]
    /\ removed' = removed \cup {u}
    /\ UNCHANGED << cfgVars, pubVars, trackVars, receivers, lock, nextId,
                    connState, connSenders, pending, rebVars, net, stale >>

\* faulty variant: RemoveReceiver calls rebalanceReceivers itself instead of
\* spawning it; the inner Lock() never returns and the lock stays held
CallbackRebalancesInline(u) ==
    /\ callbacks[u] > 0
    /\ lock = "free"
    /\ pending < MaxPending
    /\ connState' = ConnAfterClose(u)
    /\ callbacks' = CallbacksAfterClose([callbacks EXCEPT ![u] = @ - 1], u)
    /\ receivers' = receivers \ {u}
    /\ net' = [net EXCEPT !.receivers = @ \ {u}]
    /\ stale' = (stale \/ u \in receivers)
    /\ lock' = IF u \in receivers THEN "RemoveReceiver" ELSE "free"
    /\ removed' = removed \cup {u}
    /\ UNCHANGED << cfgVars, pubVars, trackVars, nextId, pending,
                    connSenders, rebVars >>

\* OnConnectionStateChange(Failed or Closed): peerConnection.Close();
\* b.RemoveReceiver(receiverID).  Both RemoveReceiver and the callback close
\* the connection, so it is closed when the callback returns.
Callback(u) ==
    /\ callbacks[u] > 0
    /\ lock = "free"
    /\ pending < MaxPending
    /\ connState' = ConnAfterClose(u)
    /\ callbacks' = CallbacksAfterClose([callbacks EXCEPT ![u] = @ - 1], u)
    /\ RemoveReceiver(u)
    /\ removed' = removed \cup {u}
    /\ UNCHANGED << cfgVars, pubVars, trackVars, lock, nextId,
                    connSenders, rebVars >>

\* --------------------------------------------------------------- rebalance
\* faulty variant: the prune tests for the failed state instead of closed
pruneFailedConnections == { u \in receivers : connState[u] = "failed" }

\* pruneClosedConnections: the receivers it deletes
pruneClosedConnections == { u \in receivers : connState[u] = "closed" }

\* faulty variant: the receivers are listed before the closed ones are pruned
RebalanceStartListBeforePrune ==
    /\ pending > 0
    /\ lock = "free"
    /\ pending' = pending - 1
    /\ lock' = "rebalance"
    /\ receivers' = receivers \ pruneClosedConnections
    /\ net' = [net EXCEPT !.receivers = @ \ pruneClosedConnections]
    /\ \E sl \in Orderings(DOMAIN senders), rl \in Orderings(receivers) :
          match' = Dist(distributionFunction, sl, rl)
    /\ todo' = DOMAIN match'
    /\ stale' = FALSE
    /\ UNCHANGED << cfgVars, pubVars, trackVars, nextId, connVars, sent, failure, removed >>

\* rebalanceReceivers up to the policy: lock, prune, list the two maps in
\* map-iteration order (any order), apply the policy
RebalanceStart ==
    /\ pending > 0
    /\ lock = "free"
    /\ pending' = pending - 1
    /\ lock' = "rebalance"
    /\ receivers' = receivers \ pruneClosedConnections
    /\ net' = [net EXCEPT !.receivers = @ \ pruneClosedConnections]
    /\ \E sl \in Orderings(DOMAIN senders), rl \in Orderings(receivers') :
          match' = Dist(distributionFunction, sl, rl)
    /\ todo' = DOMAIN match'
    /\ stale' = FALSE
    /\ UNCHANGED << cfgVars, pubVars, trackVars, nextId, connVars,
                    sent, failure, removed >>

\* the tracks on u's connection after the RemoveTrack and AddTrack calls for
\* target v; both calls fail on a closed connection and their errors are
\* dropped
Reattach(u, v) ==
    IF connState[u] = "closed" THEN connSenders[u]
    ELSE { t \in connSenders[u] : Key(t) \in v }
         \cup { senders[k] : k \in v \ Keys(connSenders[u]) }

\* CreateOffer fails on a closed connection and may fail on any other
CreateOffer(u) == IF connState[u] = "closed" THEN {FALSE} ELSE BOOLEAN

\* what can go wrong after CreateOffer returned an offer: nothing,
\* SetLocalDescription fails (logged) or the socket Write fails (result
\* dropped); the offer is written in all three cases
AfterOffer == { "none", "SetLocalDescription", "Write" }

\* faulty variant: a failed CreateOffer returns from the rebalance
ReconcileAbortOnFailure(u) ==
    /\ lock = "rebalance"
    /\ u \in todo
    /\ connSenders' = [connSenders EXCEPT ![u] = Reattach(u, match[u])]
    /\ \E offerOk \in CreateOffer(u) :
          IF offerOk
          THEN /\ sent' = [sent EXCEPT ![u] = @ + 1]
               /\ \E f \in AfterOffer : failure' = [failure EXCEPT ![u] = f]
               /\ todo' = todo \ {u}
          ELSE /\ sent' = sent
               /\ failure' = [failure EXCEPT ![u] = "CreateOffer"]
               /\ todo' = {}
    /\ UNCHANGED << cfgVars, pubVars, trackVars, receivers, lock,
                    nextId, connState, callbacks, pending, match, net, removed,
                    stale >>

\* faulty variant: no offer is made when no track was removed or added
ReconcileSkipEmptyDiff(u) ==
    /\ lock = "rebalance"
    /\ u \in todo
    /\ todo' = todo \ {u}
    /\ connSenders' = [connSenders EXCEPT ![u] = Reattach(u, match[u])]
    /\ IF connSenders'[u] = connSenders[u]
       THEN UNCHANGED << sent, failure >>
       ELSE \E offerOk \in CreateOffer(u) :
              IF offerOk
              THEN /\ sent' = [sent EXCEPT ![u] = @ + 1]
                   /\ \E f \in AfterOffer : failure' = [failure EXCEPT ![u] = f]
              ELSE /\ sent' = sent
                   /\ failure' = [failure EXCEPT ![u] = "CreateOffer"]
    /\ UNCHANGED << cfgVars, pubVars, trackVars, receivers, lock,
                    nextId, connState, callbacks, pending, match, net, removed,
                    stale >>

\* the body of `for u, v := range match` for one u: reconcile the tracks,
\* create the offer and, unless that failed, write it to the socket
Reconcile(u) ==
    /\ lock = "rebalance"
    /\ u \in todo
    /\ todo' = todo \ {u}
    /\ connSenders' = [connSenders EXCEPT ![u] = Reattach(u, match[u])]
    /\ \E offerOk \in CreateOffer(u) :
          IF offerOk
          THEN /\ sent' = [sent EXCEPT ![u] = @ + 1]
               /\ \E f \in AfterOffer : failure' = [failure EXCEPT ![u] = f]
          ELSE /\ sent' = sent
               /\ failure' = [failure EXCEPT ![u] = "CreateOffer"]
    /\ UNCHANGED << cfgVars, pubVars, trackVars, receivers, lock,
                    nextId, connState, callbacks, pending, match, net, removed,
                    stale >>

\* rebalanceReceivers returns: unlock
RebalanceEnd ==
    /\ lock = "rebalance"
    /\ todo = {}
    /\ lock' = "free"
    /\ match' = << >>
    /\ sent' = [ u \in DOMAIN sent |-> 0 ]
    /\ failure' = [ u \in DOMAIN failure |-> "none" ]
    /\ UNCHANGED << cfgVars, pubVars, trackVars, receivers, nextId,
                    connVars, pending, todo, net, removed, stale >>

\* --------------------------------------------------------- specifications
Rebalance ==
    \/ RebalanceStart
    \/ \E u \in todo : Reconcile(u)
    \/ RebalanceEnd

Next ==
    \/ \E nm \in TrackNames : AddSender(nm)
    \/ \E t \in DOMAIN forwarder : ForwarderReadError(t)
    \/ \E t \in DOMAIN forwarder : ForwarderWriteError(t)
    \/ AddReceiver
    \/ \E u \in DOMAIN connState : ConnFail(u)
    \/ \E u \in DOMAIN connState : WsReturn(u)
    \/ \E u \in DOMAIN connState : Callback(u)
    \/ Rebalance

Spec == Init /\ [][Next]_vars

\* the scheduler runs every spawned rebalance goroutine and lets it finish
Fairness ==
    /\ WF_vars(RebalanceStart)
    /\ WF_vars(\E u \in todo : Reconcile(u))
    /\ WF_vars(RebalanceEnd)

FairSpec == Spec /\ Fairness

\* sync.Mutex hands the lock to every goroutine that keeps waiting for it: a
\* session callback that has been invoked gets to run
LockFairness ==
    \A u \in 1..MaxReceivers :
        SF_vars(u \in DOMAIN callbacks /\ Callback(u))

\* the tasks that take the lock: AddSender and the forwarders (one track
\* name is enough for them to contend), the receivers' handlers and session
\* callbacks, and the rebalances
NextLive ==
    \/ AddSender(<< "a", "c" >>)
    \/ \E t \in DOMAIN forwarder : ForwarderReadError(t)
    \/ AddReceiver
    \/ \E u \in DOMAIN connState : ConnFail(u)
    \/ \E u \in DOMAIN connState : WsReturn(u)
    \/ \E u \in DOMAIN connState : Callback(u)
    \/ Rebalance

LiveSpec == Init /\ [][NextLive]_vars /\ Fairness /\ LockFairness

NextWhip ==
    \/ AddPeerSenderLock
    \/ AddPeerSenderStore
    \/ \E id \in PublisherIds \cup {0} : WhipGetBegin(id)
    \/ WhipGetEnd
    \/ WhipCloseError
    \/ WhipDelete
    \/ \E nm \in TrackNames : AddSender(nm)
    \/ AddReceiver
    \/ Rebalance

SpecWhip == Init /\ [][NextWhip]_vars

\* DeletePeerSender called with any id, against publishers and receivers
\* that register
NextDelete ==
    \/ AddPeerSenderLock
    \/ AddPeerSenderStore
    \/ AddReceiver
    \/ \E id \in 1..(nextId - 1) : DeletePeerSenderCaller(id)
    \/ WhipDelete
    \/ Rebalance

SpecDelete == Init /\ [][NextDelete]_vars

\* the forwarders with every outcome of their Read and Write, against the
\* registry and its rebalances
NextForwarder ==
    \/ \E nm \in TrackNames : AddSender(nm)
    \/ \E t \in DOMAIN forwarder : ForwarderForward(t)
    \/ \E t \in DOMAIN forwarder : ForwarderReadError(t)
    \/ \E t \in DOMAIN forwarder : ForwarderWriteError(t)
    \/ \E t \in DOMAIN forwarder : ForwarderWriteClosedPipe(t)
    \/ AddReceiver
    \/ Rebalance

SpecForwarder == Init /\ [][NextForwarder]_vars

\* ---------------------------------------------- the policies on their own
DistMaxSenders == 3
DistMaxReceivers == 3

\* lists without repetition of at most n elements of S
ListsOf(S, n) ==
    UNION { { s \in [1..m -> S] : \A i, j \in 1..m : s[i] = s[j] => i = j } : m \in 0..n }

InitDist ==
    /\ distributionFunction \in {"All", "RR"}
    /\ peerSender = {}
    /\ senders = << >>
    /\ receivers = {}
    /\ lock = "free"
    /\ nextId = 1
    /\ created = << >>
    /\ forwarder = << >>
    /\ connState = << >>
    /\ connSenders = << >>
    /\ callbacks = << >>
    /\ sent = << >>
    /\ failure = << >>
    /\ pending = 0
    /\ match = << >>
    /\ todo = {}
    /\ whipPc = "idle"
    /\ whipId = 0
    /\ net = [ peerSender |-> {}, senders |-> {}, receivers |-> {} ]
    /\ removed = {}
    /\ stale = FALSE
    /\ \E sl \in ListsOf({ ToString(i) : i \in 1..DistMaxSenders }, DistMaxSenders),
          rl \in ListsOf(1..DistMaxReceivers, DistMaxReceivers) :
          call = [ senders |-> sl, receivers |-> rl, done |-> FALSE, result |-> << >> ]

\* match := s.distributionFunction(senders, receivers)
ApplyDist ==
    /\ ~call.done
    /\ call' = [call EXCEPT !.done = TRUE,
                            !.result = Dist(distributionFunction, call.senders, call.receivers)]
    /\ UNCHANGED << distributionFunction, pubVars, trackVars, receivers, lock,
                    nextId, connVars, pending, rebVars, net, removed, stale >>

SpecDist == InitDist /\ [][ApplyDist]_vars

\* ------------------------------------------------------------------ claims
\* the rebalance has reconciled every receiver of match and is about to unlock
AtRebalanceEnd == lock = "rebalance" /\ todo = {}

\* no registered receiver's session is closed
NoneClosed == \A u \in receivers : connState[u] # "closed"

\* C1 as stated: with the All policy, at the end of every rebalance the keys
\* of the tracks attached to every registered receiver are all the keys of
\* the registry
C1_AllAttachedEveryReceiver ==
    (distributionFunction = "All" /\ AtRebalanceEnd) =>
        \A u \in receivers : Keys(connSenders[u]) = DOMAIN senders

\* C1 amended: with the All policy, at the end of every rebalance the keys of
\* the tracks attached to every registered receiver whose session is not
\* closed are all the keys of the registry
C1_AllAttachedOpenReceivers ==
    (distributionFunction = "All" /\ AtRebalanceEnd) =>
        \A u \in receivers :
            connState[u] # "closed" => Keys(connSenders[u]) = DOMAIN senders

C1_Witness ==
    /\ distributionFunction = "All"
    /\ AtRebalanceEnd
    /\ Cardinality(receivers) = 2
    /\ Cardinality(DOMAIN senders) = 2
    /\ \E u \in receivers : connState[u] = "closed"
    /\ \E u \in receivers : connState[u] # "closed"

\* the split of the registry's tracks over the receivers is the fairest one:
\* every key on exactly one receiver, the counts sum to P and differ by at
\* most one
FairSplit ==
    /\ \A k \in DOMAIN senders :
          Cardinality({ u \in receivers : k \in Keys(connSenders[u]) }) = 1
    /\ Cardinality(UNION { connSenders[u] : u \in receivers })
          = Cardinality(DOMAIN senders)
    /\ \A u, w \in receivers :
          /\ connSenders[u] \cap connSenders[w] # {} => u = w
          /\ Cardinality(connSenders[u]) - Cardinality(connSenders[w]) <= 1

\* C2 as stated: with Round-robin and at least one registered receiver, at
\* the end of every rebalance the attached tracks are the fairest split
C2_FairSplitEveryRebalance ==
    (distributionFunction = "RR" /\ AtRebalanceEnd /\ receivers # {}) => FairSplit

\* C2 amended: with Round-robin and at least one registered receiver, at the
\* end of every rebalance in which no registered receiver's session is
\* closed, the attached tracks are the fairest split
C2_FairSplitOpenReceivers ==
    (distributionFunction = "RR" /\ AtRebalanceEnd /\ receivers # {} /\ NoneClosed)
        => FairSplit

C2_Witness ==
    /\ distributionFunction = "RR"
    /\ AtRebalanceEnd
    /\ NoneClosed
    /\ Cardinality(receivers) = 2
    /\ Cardinality(DOMAIN senders) = 1
    /\ \E u \in receivers : connSenders[u] = {}

\* C3: once RemoveReceiver(id) has returned, no step writes an offer to id
C3_NoOfferAfterRemoveReceiver ==
    [][\A u \in removed : sent'[u] <= sent[u]]_vars

\* a rebalance writes an offer to a receiver while another one has been removed
C3_Witness ==
    /\ lock = "rebalance"
    /\ removed # {}
    /\ \E w \in receivers : sent[w] > 0

\* C4: every membership change is eventually followed by the end of a
\* rebalance whose snapshot was taken after the change
C4_ChangeLeadsToRebalance ==
    stale ~> (AtRebalanceEnd /\ ~stale)

\* a rebalance ends after a track and a receiver were removed
C4_Witness ==
    /\ AtRebalanceEnd
    /\ ~stale
    /\ removed # {}
    /\ \E t \in DOMAIN forwarder : forwarder[t] = "removed"

\* no rebalance is spawned or running and no session callback is in flight
Quiescent ==
    /\ lock = "free"
    /\ pending = 0
    /\ \A u \in DOMAIN callbacks : callbacks[u] = 0

\* C5: at quiescence the keys attached to every registered receiver are what
\* the policy assigns to it for the registry's contents, listed in some order
C5_QuiescentMatchesPolicy ==
    Quiescent =>
        \E sl \in Orderings(DOMAIN senders), rl \in Orderings(receivers) :
            \A u \in receivers :
                Keys(connSenders[u]) = Dist(distributionFunction, sl, rl)[u]

C5_Witness ==
    /\ Quiescent
    /\ Cardinality(receivers) = 2
    /\ senders # << >>
    /\ \E t \in DOMAIN forwarder : forwarder[t] = "removed" /\ Key(t) \notin DOMAIN senders

\* C6: no read of a registry map overlaps a write of it by another task
C6_NoReadOverlapsWrite == whipPc # "raced"

\* C7: each registry map holds exactly the entries added and not since
\* removed
C7_MapsHoldNetEntries ==
    /\ peerSender = net.peerSender
    /\ DOMAIN senders = net.senders
    /\ receivers = net.receivers

\* C8: a RemoveSender whose key is absent changes no map and no attached
\* set, spawns no rebalance and sends no offer
C8_RemoveAbsentSenderIsNoOp ==
    [][\A t \in DOMAIN forwarder :
          (Running(t) /\ forwarder'[t] = "removed"
             /\ Key(t) \notin DOMAIN senders)
          => UNCHANGED << peerSender, senders, receivers, connSenders, pending, sent >>]_vars

\* two forwarders of tracks with one key have both called RemoveSender: the
\* second call found the key absent
C8_Witness ==
    /\ \E t1, t2 \in DOMAIN forwarder :
          /\ t1 # t2
          /\ Key(t1) = Key(t2)
          /\ forwarder[t1] = "removed"
          /\ forwarder[t2] = "removed"
    /\ receivers # {}

\* C9: a Round-robin rebalance with no receiver left after pruning computes
\* the empty assignment, reconciles nobody, attaches and detaches nothing and
\* writes no offer
C9_RRNoReceiversNoReconcile ==
    [][(distributionFunction = "RR" /\ lock' = "rebalance" /\ receivers' = {})
          => (match' = << >> /\ todo' = {} /\ UNCHANGED << connSenders, sent >>)]_vars

\* such a rebalance ran while tracks were registered and a pruned or removed
\* receiver still had tracks attached
C9_Witness ==
    /\ distributionFunction = "RR"
    /\ AtRebalanceEnd
    /\ receivers = {}
    /\ senders # << >>
    /\ \E u \in DOMAIN connSenders : connSenders[u] # {}

\* C10: Round-robin over a non-empty receiver list returns a map over exactly
\* the receivers in which the receiver at index j has the senders at the
\* indices i with i mod S = j (0-based)
C10_RRDistByIndex ==
    (call.done /\ distributionFunction = "RR" /\ Len(call.receivers) > 0) =>
        LET S == Len(call.receivers)
            P == Len(call.senders)
        IN /\ DOMAIN call.result = Range(call.receivers)
           /\ \A j \in 1..S :
                 call.result[call.receivers[j]] =
                     { call.senders[i] : i \in { i \in 1..P : (i - 1) % S = j - 1 } }

\* a call with more receivers than senders: some receiver gets the empty set
C10_Witness ==
    /\ call.done
    /\ distributionFunction = "RR"
    /\ Len(call.senders) >= 1
    /\ Len(call.receivers) > Len(call.senders)
    /\ \E r \in DOMAIN call.result : call.result[r] = {}

\* C11: any two tracks given to AddSender that differ in StreamID or ID are
\* stored under different keys
C11_DistinctTracksDistinctKeys ==
    \A t1, t2 \in DOMAIN created :
        created[t1] # created[t2] => Key(t1) # Key(t2)

\* C15 as stated: no forwarder is still in its loop after a Write that
\* failed with the sink-closed error
C15_WriteErrorEndsForwarder ==
    \A t \in DOMAIN forwarder : forwarder[t] # "sinkClosed"

\* C15 as the code has it: a failed Write ends the forwarder unless the error
\* is sink-closed (then it stays in its loop), and in both cases the track
\* stays registered and no other forwarder and no receiver is touched
C15_WriteErrorTouchesOnlyForwarder ==
    [][\A t \in DOMAIN forwarder :
          (Running(t) /\ forwarder'[t] # forwarder[t]
                      /\ forwarder'[t] \in { "sinkClosed", "failed" })
          => /\ UNCHANGED << senders, receivers, connVars, pending, rebVars >>
             /\ \A o \in DOMAIN forwarder \ {t} : forwarder'[o] = forwarder[o]]_vars

\* one forwarder has left its loop on a Write error while its track is still
\* registered, and another still loops after a sink-closed error, with a
\* receiver registered
C15_Witness ==
    /\ receivers # {}
    /\ \E t1, t2 \in DOMAIN forwarder :
          /\ forwarder[t1] = "failed"
          /\ Key(t1) \in DOMAIN senders /\ senders[Key(t1)] = t1
          /\ forwarder[t2] = "sinkClosed"

\* C20 as stated: a forwarder that leaves on a Read error removes no entry
\* that holds another track
C20_RemovalKeepsOtherTracks ==
    [][\A t \in DOMAIN forwarder :
          (Running(t) /\ forwarder'[t] = "removed")
          => \A k \in DOMAIN senders :
                senders[k] # t => (k \in DOMAIN senders' /\ senders'[k] = senders[k])]_vars

\* C12: a receiver whose connection is closed when a rebalance starts is
\* deleted from the map by that start and is not in the policy's result, and
\* a receiver outside the result is sent no offer in that rebalance
C12_ClosedPrunedBeforePolicy ==
    [][/\ (lock = "free" /\ lock' = "rebalance")
          => \A u \in receivers :
                connState[u] = "closed"
                => (u \notin receivers' /\ u \notin DOMAIN match')
       /\ lock' = "rebalance"
          => \A u \in DOMAIN sent' : u \notin DOMAIN match' => sent'[u] = 0]_vars

\* a rebalance is through its loop; a closed receiver whose callback has not
\* run was pruned, and the receiver left got a track and its offer
C12_Witness ==
    /\ AtRebalanceEnd
    /\ \E u \in DOMAIN connState :
          /\ connState[u] = "closed" /\ u \notin removed
          /\ u \notin receivers /\ u \notin DOMAIN match /\ sent[u] = 0
    /\ \E w \in receivers : match[w] # {} /\ sent[w] = 1

\* C13: when a call failed for one receiver of a rebalance, that receiver is
\* still registered at the end, and every other receiver of that rebalance
\* has gone through the loop body: its offer was written unless a call failed
\* for it too, and its tracks are the policy's unless its connection is closed
C13_FailureDoesNotAbort ==
    AtRebalanceEnd =>
        \A u \in DOMAIN match :
            failure[u] # "none"
            => /\ u \in receivers
               /\ \A w \in DOMAIN match \ {u} :
                     /\ sent[w] = 1 \/ failure[w] # "none"
                     /\ connState[w] # "closed"
                        => Keys(connSenders[w]) = match[w]

\* one of the three calls has failed for an open receiver at the end of a
\* rebalance in which another receiver got a track and its offer
C13_Witness ==
    /\ AtRebalanceEnd
    /\ \E u, w \in receivers :
          /\ failure[u] \in { "CreateOffer", "SetLocalDescription", "Write" }
          /\ connState[u] = "open"
          /\ w # u /\ failure[w] = "none" /\ sent[w] = 1 /\ match[w] # {}
          /\ Keys(connSenders[w]) = match[w]

\* C14: in a rebalance every receiver of the policy's result is sent at most
\* one offer, and exactly one once the loop body has run for it and
\* CreateOffer did not fail
C14_OneOfferPerReceiver ==
    lock = "rebalance" =>
        \A u \in DOMAIN match :
            /\ sent[u] <= 1
            /\ (u \notin todo /\ failure[u] # "CreateOffer") => sent[u] = 1

\* at the end of a rebalance a receiver that was given no track and had none
\* has its offer, as has one that was given a track
C14_Witness ==
    /\ AtRebalanceEnd
    /\ \E u, w \in receivers :
          /\ match[u] = {} /\ connSenders[u] = {} /\ sent[u] = 1
          /\ match[w] # {} /\ sent[w] = 1

\* C16: while a rebalance holds the lock no step changes a registry map or
\* the policy's result, and that result is over the receivers and the tracks
\* registered at that time
C16_RebalanceSeesOneSnapshot ==
    [][/\ (lock = "rebalance" /\ lock' = "rebalance")
          => UNCHANGED << peerSender, senders, receivers, match >>
       /\ lock' = "rebalance"
          => /\ DOMAIN match' \subseteq receivers'
             /\ \A u \in DOMAIN match' : match'[u] \subseteq DOMAIN senders']_vars

\* a rebalance is between two receivers of its loop while another spawned
\* rebalance waits for the lock
C16_Witness ==
    /\ lock = "rebalance"
    /\ pending > 0
    /\ todo # {}
    /\ \E u \in DOMAIN match \ todo : match[u] # {}

C19_ReceiverEventuallyDeleted ==
    /\ \A u \in 1..MaxReceivers :
          (u \in receivers /\ connState[u] # "open") ~> (u \notin receivers)
    /\ [][\A u \in DOMAIN connState : u \notin receivers => u \notin receivers']_vars

\* one receiver was deleted by its callback, another by a rebalance's prune
C19_Witness ==
    \E u, w \in DOMAIN connState :
        /\ u \notin receivers /\ u \in removed /\ callbacks[u] = 0
        /\ w \notin receivers /\ w \notin removed /\ connState[w] = "closed"

\* C18 as stated: a call of DeletePeerSender, whatever the id, leaves
\* receivers and senders as they were
C18_DeletePeerSenderKeepsReceivers ==
    [][(whipPc = "found" /\ whipPc' = "idle")
          => UNCHANGED << receivers, senders >>]_vars
====
